---- MODULE Spec2Model ----
(***************************************************************************)
(* The client-side form-submission pipeline of the site: the sliding-window *)
(* submission rate limiter kept in localStorage, the per-field error       *)
(* annotations and the submit / blur / input handlers of formValidation.   *)
(***************************************************************************)
EXTENDS Integers, Sequences, FiniteSets, TLC

VARIABLES
    now,          \* Date.now(), milliseconds
    store,        \* localStorage item 'sss_form_submissions', as JSON.parse sees it
    storageMode,  \* how localStorage behaves: "ok", "quota" (setItem throws), "disabled" (all throw)
    attrs,        \* the form's fields in document order: type and required attribute
    dom,          \* the element children of the form, in document order
    value,        \* field.value of every field
    fieldError,   \* whether field.classList contains 'field-error'
    focus,        \* document.activeElement: a field index, 0 for none
    event,        \* the most recently dispatched event object and its defaultPrevented flag
    accepted,     \* times of the latest maxSubmissions + 1 submit events that proceeded natively
    lastCall,     \* the most recent direct call of a rateLimit method and what it returned
    recorded,     \* times of the direct recordSubmission() calls that wrote the store
    tabs,         \* per tab sharing the key: how far its submit handler has run, and what it read
    phoneArg,     \* the argument of the most recent utils.isValidPhone call
    verdict,      \* whether utils.isValidPhone has been called, and what it returned
    clock,        \* Date.now() as the timers of throttle and debounce see it, in ms
    thr,          \* the closure utils.throttle returned: wait, lastRan, timeout
    deb,          \* the closure utils.debounce returned: wait, immediate, timeout
    calls,        \* the most recent call of the returned function: its time and argument
    invocations,  \* the latest invocations of func: time, argument, whether synchronous
    scrollY,      \* window.scrollY
    cta,          \* mobileCTA: ctaElement and its classList, lastScroll, ticking
    frames,       \* whether a requestAnimationFrame callback of mobileCTA is pending
    page,         \* the lightbox object and its element, body.style.overflow, document.activeElement
    dispatched,   \* the latest lightbox event or call, and whether it ran close()
    app           \* the App object, the module init() calls it made and the errors it logged

limiterVars == <<now, store, storageMode>>
formVars == <<attrs, dom, value, fieldError, focus, event, accepted>>
apiVars == <<lastCall, recorded>>
tabVars == <<tabs>>
utilVars == <<phoneArg, verdict>>
timerVars == <<clock, thr, deb, calls, invocations>>
coreVars == <<limiterVars, formVars, apiVars, tabVars, utilVars>>
ctaVars == <<scrollY, cta, frames>>
lightboxVars == <<page, dispatched>>
appVars == <<app>>
widgetVars == <<timerVars, ctaVars, lightboxVars, appVars>>
outsideTimers == <<coreVars, ctaVars, lightboxVars, appVars>>
outsideCta == <<coreVars, timerVars, lightboxVars, appVars>>
outsideLightbox == <<coreVars, timerVars, ctaVars, appVars>>
vars == <<now, store, storageMode, attrs, dom, value, fieldError, focus, event,
          accepted, lastCall, recorded, tabs, phoneArg, verdict,
          clock, thr, deb, calls, invocations, scrollY, cta, frames,
          page, dispatched, app>>

---------------------------------------------------------------------------
(* Bounds of the model *)

\* index of the last instant the clock reaches
MaxInstant == 2
\* cap on the length of a stored timestamp array
MaxStored == 4

(* Program constants *)

maxSubmissions == 3
windowMs == 600000
phoneMinLength == 10
phoneMaxLength == 20

\* the instants Date.now() takes: the start, then the last millisecond inside
\* and the first millisecond outside each window that started at 0: 0, W-1, W, 2W-1, 2W, ...
InstantAt(k) == ((k + 1) \div 2) * windowMs - (k % 2)
Instants == {InstantAt(k) : k \in 0..MaxInstant}

---------------------------------------------------------------------------
(* Strings are sequences of one-character strings *)

Lower == {"a","b","c","d","e","f","g","h","i","j","k","l","m",
          "n","o","p","q","r","s","t","u","v","w","x","y","z"}
Upper == {"A","B","C","D","E","F","G","H","I","J","K","L","M",
          "N","O","P","Q","R","S","T","U","V","W","X","Y","Z"}
Digit == {"0","1","2","3","4","5","6","7","8","9"}
AlphaNum == Lower \cup Upper \cup Digit
Whitespace == {" "}

RECURSIVE TrimStart(_)
TrimStart(s) ==
    IF s # <<>> /\ Head(s) \in Whitespace THEN TrimStart(Tail(s)) ELSE s

RECURSIVE TrimEnd(_)
TrimEnd(s) ==
    IF s # <<>> /\ s[Len(s)] \in Whitespace
    THEN TrimEnd(SubSeq(s, 1, Len(s) - 1)) ELSE s

\* String.prototype.trim
trim(s) == TrimEnd(TrimStart(s))

\* index of the first c in s, 0 when there is none
IndexOf(s, c) ==
    IF \E i \in 1..Len(s) : s[i] = c
    THEN CHOOSE i \in 1..Len(s) : s[i] = c /\ \A j \in 1..(i - 1) : s[j] # c
    ELSE 0

\* the pieces of s between the separators c
RECURSIVE Split(_, _)
Split(s, c) ==
    LET i == IndexOf(s, c) IN
    IF i = 0 THEN <<s>>
    ELSE <<SubSeq(s, 1, i - 1)>> \o Split(SubSeq(s, i + 1, Len(s)), c)

\* characters of the local part of config.validation.emailPattern (the grave
\* accent, which no value of the model holds, is left out)
EmailLocalChars ==
    AlphaNum \cup {".","!","#","$","%","&","'","*","+","/","=","?","^","_","{","|","}","~","-"}

\* one domain label of emailPattern: 1 to 63 letters, digits and hyphens, no
\* hyphen at either edge
DomainLabel(l) ==
    /\ Len(l) >= 1
    /\ Len(l) <= 63
    /\ l[1] \in AlphaNum
    /\ l[Len(l)] \in AlphaNum
    /\ \A i \in 1..Len(l) : l[i] \in AlphaNum \cup {"-"}

\* config.validation.emailPattern.test(s)
emailPattern(s) ==
    LET at == IndexOf(s, "@")
        local == SubSeq(s, 1, at - 1)
        domain == SubSeq(s, at + 1, Len(s))
        labels == Split(domain, ".")
    IN  /\ at > 1
        /\ \A i \in 1..Len(local) : local[i] \in EmailLocalChars
        /\ \A i \in 1..Len(labels) : DomainLabel(labels[i])

\* config.validation.phonePattern.test(s)
phonePattern(s) ==
    /\ Len(s) >= 1
    /\ \A i \in 1..Len(s) : s[i] \in Digit \cup Whitespace \cup {"-", "(", ")", "+"}

\* utils.isValidEmail, of a string
isValidEmail(email) ==
    IF email = <<>> THEN FALSE ELSE emailPattern(trim(email))

\* utils.isValidPhone, of a string
isValidPhone(phone) ==
    IF phone = <<>> THEN FALSE
    ELSE LET trimmedPhone == trim(phone) IN
         /\ Len(trimmedPhone) >= phoneMinLength
         /\ Len(trimmedPhone) <= phoneMaxLength
         /\ phonePattern(trimmedPhone)

\* a JavaScript value handed to a validator: its typeof kind and, for a
\* string, its characters
Arg(kind, str) == [kind |-> kind, str |-> str]
NoArg == Arg("undefined", <<>>)
\* the boolean a validator returned
Verdict(result) == [called |-> TRUE, value |-> result]
NoVerdict == [called |-> FALSE, value |-> FALSE]

\* utils.isValidPhone, of any value: `!phone || typeof phone !== 'string'`
\* rejects null, undefined, numbers and the empty string
isValidPhoneOf(arg) ==
    IF arg.kind # "string" THEN FALSE ELSE isValidPhone(arg.str)

\* config.validation.messages
MsgRequired == "This field is required"
MsgInvalidEmail == "Please enter a valid email address"
MsgInvalidPhone == "Please enter a valid phone number"

\* what a user types into a field of each type
SampleValues(type) ==
    CASE type = "text"  -> { <<>>, <<" ">>, <<"J","o">> }
      [] type = "email" -> { <<>>, <<" ", " ">>, <<"a","@","b",".","c","o">>,
                             <<"i","n","v","a","l","i","d">> }
      [] type = "tel"   -> { <<>>, <<"5","5","5">>,
                             <<"5","5","5","-","1","2","3","-","4","5","6","7">> }

---------------------------------------------------------------------------
(* The rate limiter: rateLimit of the form-validation module *)

\* a JavaScript number: a finite integer, or NaN
Num(n) == [nan |-> FALSE, v |-> n]
NaN == [nan |-> TRUE, v |-> 0]

\* what localStorage holds under storageKey, by what JSON.parse makes of it:
\*   "null"    no item (getItem returns null, so '[]' is parsed)
\*   "array"   a JSON array of numbers, seq
\*   "invalid" text that JSON.parse rejects with a SyntaxError
\*   "object"  a JSON value with no filter, push or iterator: {}, 5, true
\*   "string"  a JSON string of non-digit characters, such as "abc"
Item(kind, seq) == [kind |-> kind, seq |-> seq]
NoItem == Item("null", <<>>)

\* localStorage.getItem throws
GetThrows(mode) == mode = "disabled"
\* localStorage.setItem throws
SetThrows(mode) == mode \in {"disabled", "quota"}

\* JSON.parse(localStorage.getItem(this.storageKey) || '[]'):
\* the parsed value, or threw when getItem or JSON.parse throws
readSubmissions(st, mode) ==
    IF GetThrows(mode) \/ st.kind = "invalid"
    THEN [threw |-> TRUE, kind |-> "none", seq |-> <<>>]
    ELSE IF st.kind = "null"
    THEN [threw |-> FALSE, kind |-> "array", seq |-> <<>>]
    ELSE [threw |-> FALSE, kind |-> st.kind, seq |-> st.seq]

\* filterRecent with the window closed at its far edge: now - time <= windowMs
RECURSIVE filterRecentInclusive(_, _)
filterRecentInclusive(submissions, t) ==
    IF submissions = <<>> THEN <<>>
    ELSE IF t - Head(submissions) <= windowMs
    THEN <<Head(submissions)>> \o filterRecentInclusive(Tail(submissions), t)
    ELSE filterRecentInclusive(Tail(submissions), t)

\* submissions.filter((time) => now - time < this.windowMs)
RECURSIVE filterRecent(_, _)
filterRecent(submissions, t) ==
    IF submissions = <<>> THEN <<>>
    ELSE IF t - Head(submissions) < windowMs
    THEN <<Head(submissions)>> \o filterRecent(Tail(submissions), t)
    ELSE filterRecent(Tail(submissions), t)

\* canSubmit allowing one submission too many: length <= maxSubmissions
canSubmitOffByOne(st, mode, t) ==
    LET submissions == readSubmissions(st, mode) IN
    IF submissions.threw THEN TRUE
    ELSE IF submissions.kind # "array" THEN TRUE
    ELSE Len(filterRecent(submissions.seq, t)) <= maxSubmissions

\* canSubmit counting every stored timestamp, stale ones too
canSubmitNoPrune(st, mode, t) ==
    LET submissions == readSubmissions(st, mode) IN
    IF submissions.threw THEN TRUE
    ELSE IF submissions.kind # "array" THEN TRUE
    ELSE Len(submissions.seq) < maxSubmissions

\* canSubmit whose catch denies: return false when localStorage fails
canSubmitFailClosed(st, mode, t) ==
    LET submissions == readSubmissions(st, mode) IN
    IF submissions.threw THEN FALSE
    ELSE IF submissions.kind # "array" THEN TRUE
    ELSE Len(filterRecent(submissions.seq, t)) < maxSubmissions

\* rateLimit.canSubmit(): a non-array has no filter method, the TypeError is caught
canSubmit(st, mode, t) ==
    LET submissions == readSubmissions(st, mode) IN
    IF submissions.threw THEN TRUE
    ELSE IF submissions.kind # "array" THEN TRUE
    ELSE Len(filterRecent(submissions.seq, t)) < maxSubmissions

\* recordSubmission that prunes and writes but forgets submissions.push(now)
recordSubmissionNoPush(st, mode, t) ==
    LET submissions == readSubmissions(st, mode) IN
    IF submissions.threw THEN st
    ELSE IF submissions.kind # "array" THEN st
    ELSE LET cleaned == filterRecent(submissions.seq, t) IN
         IF SetThrows(mode) THEN st ELSE Item("array", cleaned)

\* recordSubmission that pushes and writes without cleaning old submissions
recordSubmissionNoClean(st, mode, t) ==
    LET submissions == readSubmissions(st, mode) IN
    IF submissions.threw THEN st
    ELSE IF submissions.kind # "array" THEN st
    ELSE IF SetThrows(mode) THEN st ELSE Item("array", Append(submissions.seq, t))

\* rateLimit.recordSubmission(): the item afterwards. Every failure (getItem,
\* JSON.parse, push on a non-array, setItem) lands in the one catch, which writes nothing
recordSubmission(st, mode, t) ==
    LET submissions == readSubmissions(st, mode) IN
    IF submissions.threw THEN st
    ELSE IF submissions.kind # "array" THEN st
    ELSE LET cleaned == filterRecent(Append(submissions.seq, t), t) IN
         IF SetThrows(mode) THEN st ELSE Item("array", cleaned)

\* Math.min(...submissions) of a non-empty array of numbers
RECURSIVE MathMin(_)
MathMin(submissions) ==
    IF Len(submissions) = 1 THEN Head(submissions)
    ELSE LET m == MathMin(Tail(submissions)) IN
         IF Head(submissions) < m THEN Head(submissions) ELSE m

\* Math.ceil(a / b) for b > 0
MathCeilDiv(a, b) == -((-a) \div b)

\* getRemainingTime rounding down: Math.floor in place of Math.ceil
getRemainingTimeFloor(st, mode, t) ==
    LET submissions == readSubmissions(st, mode) IN
    IF submissions.threw THEN Num(0)
    ELSE IF submissions.kind = "object" THEN Num(0)
    ELSE IF submissions.kind = "string" THEN NaN
    ELSE IF Len(submissions.seq) = 0 THEN Num(0)
    ELSE LET oldest == MathMin(submissions.seq)
             elapsed == t - oldest
             secs == (windowMs - elapsed) \div 1000
         IN  Num(IF secs > 0 THEN secs ELSE 0)

\* rateLimit.getRemainingTime(): spreading a non-iterable throws and is caught; the
\* characters of a string spread to Math.min give NaN, and Math.max(0, NaN) is NaN
getRemainingTime(st, mode, t) ==
    LET submissions == readSubmissions(st, mode) IN
    IF submissions.threw THEN Num(0)
    ELSE IF submissions.kind = "object" THEN Num(0)
    ELSE IF submissions.kind = "string" THEN NaN
    ELSE IF Len(submissions.seq) = 0 THEN Num(0)
    ELSE LET oldest == MathMin(submissions.seq)
             elapsed == t - oldest
             secs == MathCeilDiv(windowMs - elapsed, 1000)
         IN  Num(IF secs > 0 THEN secs ELSE 0)

---------------------------------------------------------------------------
(* The form: its element children and the handlers of formValidation *)

FieldNode(f) == [tag |-> "field", id |-> f, msg |-> "", minutes |-> Num(0)]
SubmitNode == [tag |-> "submit", id |-> 0, msg |-> "", minutes |-> Num(0)]
\* <div class="error-message" role="alert" aria-live="polite">
ErrorNode(message) == [tag |-> "error", id |-> 0, msg |-> message, minutes |-> Num(0)]
\* <div class="rate-limit-message error-message" role="alert" aria-live="assertive">
RateNode(minutes) == [tag |-> "rate", id |-> 0, msg |-> "Too many submissions", minutes |-> minutes]

\* classList.contains('error-message'): the rate-limit div carries both classes
hasErrorMessageClass(n) == n.tag \in {"error", "rate"}
\* classList.contains('rate-limit-message')
hasRateLimitClass(n) == n.tag = "rate"

\* a field attribute record
Field(type, required) == [type |-> type, required |-> required]

\* the forms of the model: the fields in document order, and whether a submit button ends the form
Forms ==
    { [fields |-> <<Field("text", TRUE), Field("email", TRUE)>>,
       button |-> TRUE],
      [fields |-> <<Field("email", FALSE), Field("tel", TRUE)>>,
       button |-> FALSE] }

\* the children of a freshly loaded form
InitialDom(form) ==
    [i \in 1..Len(form.fields) |-> FieldNode(i)]
        \o (IF form.button THEN <<SubmitNode>> ELSE <<>>)

RemoveAt(d, i) == SubSeq(d, 1, i - 1) \o SubSeq(d, i + 1, Len(d))
\* parentNode.insertBefore(n, d[i]); i = Len(d) + 1 appends
InsertBefore(d, i, n) == SubSeq(d, 1, i - 1) \o <<n>> \o SubSeq(d, i, Len(d))

\* position of field f among the children
IndexOfField(d, f) == CHOOSE i \in 1..Len(d) : d[i].tag = "field" /\ d[i].id = f

\* removeErrorMessages that removes nothing
keepErrorMessages(d) == d

\* the children without those a predicate selects: querySelectorAll(sel).forEach(msg => msg.remove())
RECURSIVE removeErrorMessages(_)
removeErrorMessages(d) ==
    IF d = <<>> THEN <<>>
    ELSE IF hasErrorMessageClass(Head(d)) THEN removeErrorMessages(Tail(d))
    ELSE <<Head(d)>> \o removeErrorMessages(Tail(d))

RECURSIVE removeRateLimitMessages(_)
removeRateLimitMessages(d) ==
    IF d = <<>> THEN <<>>
    ELSE IF hasRateLimitClass(Head(d)) THEN removeRateLimitMessages(Tail(d))
    ELSE <<Head(d)>> \o removeRateLimitMessages(Tail(d))

\* A page is the mutable part of the document: [dom, cls, focus]

\* formValidation._clearFieldError(field)
clearFieldError(p, f) ==
    LET i == IndexOfField(p.dom, f)
        d == IF i < Len(p.dom) /\ hasErrorMessageClass(p.dom[i + 1])
             THEN RemoveAt(p.dom, i + 1) ELSE p.dom
    IN  [p EXCEPT !.dom = d, !.cls[f] = FALSE]

\* _showError that does not clear the field first
showErrorNoClear(p, f, message) ==
    LET i == IndexOfField(p.dom, f) IN
    [p EXCEPT !.dom = InsertBefore(p.dom, i + 1, ErrorNode(message)),
              !.cls[f] = TRUE]

\* formValidation._showError(field, message)
showError(p, f, message) ==
    LET q == clearFieldError(p, f)
        i == IndexOfField(q.dom, f)
    IN  [q EXCEPT !.dom = InsertBefore(q.dom, i + 1, ErrorNode(message)),
                  !.cls[f] = TRUE]

\* formValidation._showRateLimitError(form, message)
showRateLimitError(p, minutes) ==
    LET buttons == {i \in 1..Len(p.dom) : p.dom[i].tag = "submit"} IN
    IF buttons # {}
    THEN LET b == CHOOSE i \in buttons : \A j \in buttons : i <= j IN
         [p EXCEPT !.dom = InsertBefore(p.dom, b, RateNode(minutes))]
    ELSE [p EXCEPT !.dom = <<RateNode(minutes)>> \o p.dom]

\* _validateField testing the type before the required attribute
validateFieldTypeFirst(p, f, at, val) ==
    IF at[f].type = "email" /\ val[f] # <<>> /\ ~isValidEmail(val[f])
    THEN showError(p, f, MsgInvalidEmail)
    ELSE IF at[f].required /\ trim(val[f]) = <<>>
    THEN showError(p, f, MsgRequired)
    ELSE clearFieldError(p, f)

\* formValidation._validateField(field)
validateField(p, f, at, val) ==
    IF at[f].required /\ trim(val[f]) = <<>>
    THEN showError(p, f, MsgRequired)
    ELSE IF at[f].type = "email" /\ val[f] # <<>> /\ ~isValidEmail(val[f])
    THEN showError(p, f, MsgInvalidEmail)
    ELSE clearFieldError(p, f)

\* form.querySelectorAll('[required]'), in document order
requiredFields(at) == SelectSeq([i \in 1..Len(at) |-> i], LAMBDA i : at[i].required)

\* the body of requiredFields.forEach in _handleSubmit, for one field:
\* the message of the failing check, "" when the field passes
submitCheck(at, val, f) ==
    IF trim(val[f]) = <<>> THEN MsgRequired
    ELSE IF at[f].type = "email" /\ ~isValidEmail(val[f]) THEN MsgInvalidEmail
    ELSE IF at[f].type = "tel" /\ ~isValidPhone(val[f]) THEN MsgInvalidPhone
    ELSE ""

\* validateAll that stops at the first failing field
validateAllStopAtFirst(p, isValid, fs, at, val) ==
    LET failing == SelectSeq(fs, LAMBDA f : submitCheck(at, val, f) # "") IN
    IF failing = <<>> THEN [page |-> p, isValid |-> isValid]
    ELSE [page |-> showError(p, Head(failing), submitCheck(at, val, Head(failing))),
          isValid |-> FALSE]

\* requiredFields.forEach(...) over the remaining fields fs: the page and isValid
RECURSIVE validateAll(_, _, _, _, _)
validateAll(p, isValid, fs, at, val) ==
    IF fs = <<>> THEN [page |-> p, isValid |-> isValid]
    ELSE LET m == submitCheck(at, val, Head(fs)) IN
         IF m # ""
         THEN validateAll(showError(p, Head(fs), m), FALSE, Tail(fs), at, val)
         ELSE validateAll(p, isValid, Tail(fs), at, val)

\* focusFirstError taking the last annotation instead of the first
focusLastError(p) ==
    LET errs == {i \in 1..Len(p.dom) : hasErrorMessageClass(p.dom[i])} IN
    IF errs = {} THEN p
    ELSE LET lastError == CHOOSE i \in errs : \A j \in errs : i >= j IN
         IF lastError > 1 /\ p.dom[lastError - 1].tag = "field"
         THEN [p EXCEPT !.focus = p.dom[lastError - 1].id]
         ELSE p

\* form.querySelector('.error-message'), then previousElementSibling.focus();
\* focus() on an annotation div, which has no tabindex, moves nothing
focusFirstError(p) ==
    LET errs == {i \in 1..Len(p.dom) : hasErrorMessageClass(p.dom[i])} IN
    IF errs = {} THEN p
    ELSE LET firstError == CHOOSE i \in errs : \A j \in errs : i <= j IN
         IF firstError > 1 /\ p.dom[firstError - 1].tag = "field"
         THEN [p EXCEPT !.focus = p.dom[firstError - 1].id]
         ELSE p

\* _handleSubmit without e.preventDefault() in the failed-validation branch
handleSubmitNoPrevent(p, at, val, st, mode, t) ==
    LET cleared == [p EXCEPT !.dom = removeRateLimitMessages(removeErrorMessages(p.dom))] IN
    IF ~canSubmit(st, mode, t)
    THEN LET remainingTime == getRemainingTime(st, mode, t)
             minutes == IF remainingTime.nan THEN NaN
                        ELSE Num(MathCeilDiv(remainingTime.v, 60))
         IN  [page |-> showRateLimitError(cleared, minutes),
              store |-> st, prevented |-> TRUE]
    ELSE LET r == validateAll(cleared, TRUE, requiredFields(at), at, val) IN
         IF ~r.isValid
         THEN [page |-> focusFirstError(r.page), store |-> st, prevented |-> FALSE]
         ELSE [page |-> r.page, store |-> recordSubmission(st, mode, t),
               prevented |-> FALSE]

\* _handleSubmit recording the attempt even when field validation fails
handleSubmitRecordFailed(p, at, val, st, mode, t) ==
    LET cleared == [p EXCEPT !.dom = removeRateLimitMessages(removeErrorMessages(p.dom))] IN
    IF ~canSubmit(st, mode, t)
    THEN LET remainingTime == getRemainingTime(st, mode, t)
             minutes == IF remainingTime.nan THEN NaN
                        ELSE Num(MathCeilDiv(remainingTime.v, 60))
         IN  [page |-> showRateLimitError(cleared, minutes),
              store |-> st, prevented |-> TRUE]
    ELSE LET r == validateAll(cleared, TRUE, requiredFields(at), at, val) IN
         IF ~r.isValid
         THEN [page |-> focusFirstError(r.page), store |-> recordSubmission(st, mode, t),
               prevented |-> TRUE]
         ELSE [page |-> r.page, store |-> recordSubmission(st, mode, t),
               prevented |-> FALSE]

\* formValidation._handleSubmit(e, form): the page, the item, and e.defaultPrevented
handleSubmit(p, at, val, st, mode, t) ==
    LET cleared == [p EXCEPT !.dom = removeRateLimitMessages(removeErrorMessages(p.dom))] IN
    IF ~canSubmit(st, mode, t)
    THEN LET remainingTime == getRemainingTime(st, mode, t)
             minutes == IF remainingTime.nan THEN NaN
                        ELSE Num(MathCeilDiv(remainingTime.v, 60))
         IN  [page |-> showRateLimitError(cleared, minutes),
              store |-> st, prevented |-> TRUE]
    ELSE LET r == validateAll(cleared, TRUE, requiredFields(at), at, val) IN
         IF ~r.isValid
         THEN [page |-> focusFirstError(r.page), store |-> st, prevented |-> TRUE]
         ELSE [page |-> r.page, store |-> recordSubmission(st, mode, t),
               prevented |-> FALSE]

---------------------------------------------------------------------------
(* utils.throttle and utils.debounce: the closures they return and their timers *)

\* a pending setTimeout: the time it is due and the arguments its callback closes over
Timer(due, args) == [set |-> TRUE, due |-> due, args |-> args]
\* no pending timer: timeout is undefined, null or the id of a timer that has fired
NoTimer == [set |-> FALSE, due |-> 0, args |-> ""]

\* an invocation of func
Run(at, args, sync) == [at |-> at, args |-> args, sync |-> sync]

\* setTimeout takes a negative delay as 0
Delay(d) == IF d > 0 THEN d ELSE 0

\* the closure of utils.throttle(func, wait) before its first call: timeout
\* and lastRan undefined (lastRan 0 stands for undefined)
NewThrottle(wait) == [made |-> TRUE, wait |-> wait, lastRan |-> 0, timeout |-> NoTimer]
NoThrottle == [made |-> FALSE, wait |-> 0, lastRan |-> 0, timeout |-> NoTimer]

\* the throttled function without the !lastRan test: func is applied on every call
throttledNoGate(st, t, args) ==
    [state |-> [st EXCEPT !.lastRan = t], ran |-> TRUE]

\* the function utils.throttle returns, called at time t: the closure
\* afterwards and whether func was applied
throttled(st, t, args) ==
    IF st.lastRan = 0
    THEN [state |-> [st EXCEPT !.lastRan = t], ran |-> TRUE]
    ELSE [state |-> [st EXCEPT !.timeout =
                        Timer(t + Delay(st.wait - (t - st.lastRan)), args)],
          ran |-> FALSE]

\* the setTimeout callback of the throttled function, run at time t
throttleTimeout(st, t) ==
    IF t - st.lastRan >= st.wait
    THEN [state |-> [st EXCEPT !.lastRan = t, !.timeout = NoTimer], ran |-> TRUE]
    ELSE [state |-> [st EXCEPT !.timeout = NoTimer], ran |-> FALSE]

\* the log of invocations with one more, cut to its latest two
Ran(log, r) == IF Len(log) < 2 THEN Append(log, r) ELSE <<log[Len(log)], r>>

\* the closure of utils.debounce(func, wait, immediate) before its first call
NewDebounce(wait, immediate) ==
    [made |-> TRUE, wait |-> wait, immediate |-> immediate, timeout |-> NoTimer]

\* the debounced function without clearTimeout: a pending timer stays as it is
debouncedNoClear(st, t, args) ==
    [state |-> IF st.timeout.set THEN st
               ELSE [st EXCEPT !.timeout = Timer(t + st.wait, args)],
     ran |-> st.immediate /\ ~st.timeout.set]

\* the function utils.debounce returns, called at time t: the closure
\* afterwards and whether func was applied (callNow)
debounced(st, t, args) ==
    [state |-> [st EXCEPT !.timeout = Timer(t + st.wait, args)],
     ran |-> st.immediate /\ ~st.timeout.set]

\* the setTimeout callback of the debounced function
debounceTimeout(st) ==
    [state |-> [st EXCEPT !.timeout = NoTimer], ran |-> ~st.immediate]

\* a call of a returned function, and the time of the call before it (0 when
\* it is the first)
CallAt(at, args, before) == [made |-> TRUE, at |-> at, args |-> args, before |-> before]
NoCallYet == [made |-> FALSE, at |-> 0, args |-> "", before |-> 0]

\* the closure of utils.debounce before it exists
NoDebounce == [made |-> FALSE, wait |-> 0, immediate |-> FALSE, timeout |-> NoTimer]

---------------------------------------------------------------------------
(* mobileCTA: the call-to-action shown while scrolling down *)

\* config.scroll.mobileCtaThreshold
mobileCtaThreshold == 300

\* the mobileCTA object as exported, before init()
NoCta == [ctaElement |-> FALSE, listening |-> FALSE, classList |-> {},
          lastScroll |-> 0, ticking |-> FALSE]

\* mobileCTA.init() on a page where querySelector('.mobile-cta') finds an
\* element (found) or returns null
ctaInit(m, found) ==
    IF found THEN [m EXCEPT !.ctaElement = TRUE, !.listening = TRUE,
                            !.classList = {"mobile-cta"}]
    ELSE [m EXCEPT !.ctaElement = FALSE]

\* mobileCTA._handleScroll(): the object afterwards and whether an animation
\* frame was requested
handleScroll(m) ==
    IF ~m.ticking THEN [state |-> [m EXCEPT !.ticking = TRUE], requested |-> TRUE]
    ELSE [state |-> m, requested |-> FALSE]

\* _updateCTA() that adds a class without removing the opposite one
updateCTANoRemove(m, currentScroll) ==
    LET threshold == mobileCtaThreshold
        classes == IF currentScroll > threshold /\ currentScroll > m.lastScroll
                   THEN m.classList \cup {"visible"}
                   ELSE IF currentScroll < m.lastScroll
                   THEN m.classList \cup {"hidden"}
                   ELSE m.classList
    IN  [m EXCEPT !.classList = classes, !.lastScroll = currentScroll, !.ticking = FALSE]

\* mobileCTA._updateCTA() with window.scrollY = currentScroll
updateCTA(m, currentScroll) ==
    LET threshold == mobileCtaThreshold
        classes == IF currentScroll > threshold /\ currentScroll > m.lastScroll
                   THEN (m.classList \cup {"visible"}) \ {"hidden"}
                   ELSE IF currentScroll < m.lastScroll
                   THEN (m.classList \cup {"hidden"}) \ {"visible"}
                   ELSE m.classList
    IN  [m EXCEPT !.classList = classes, !.lastScroll = currentScroll, !.ticking = FALSE]

---------------------------------------------------------------------------
(* lightbox: the image overlay, its open and close and its listeners *)

\* the images '.gallery img, [data-lightbox]' of the page; the second has no
\* alt text
GalleryImages == {[id |-> "img1", src |-> "gallery1.jpg", alt |-> "Gallery image 1"],
                  [id |-> "img2", src |-> "gallery2.jpg", alt |-> ""]}

\* the lightbox object as exported and the page before init(): no element
\* looked up, no inline overflow on body, nothing focused
NoLightbox == [lightboxElement |-> FALSE, lightboxImg |-> FALSE, listening |-> FALSE,
               display |-> "", ariaHidden |-> "", src |-> "", alt |-> "",
               previouslyFocusedElement |-> ""]
PageIdle == [lightbox |-> NoLightbox, overflow |-> "", activeElement |-> "body"]

\* an event or a call, and whether close() ran in it
Dispatched(type, target, key, closed) ==
    [type |-> type, target |-> target, key |-> key, closed |-> closed]
NothingDispatched == Dispatched("none", "", "", FALSE)

\* lightbox.init() on a page whose #lightbox element exists or not (found),
\* has an img child or not (img), and carries the inline style display
\* (display: none, or nothing when a stylesheet hides it)
lightboxInit(p, found, img, display) ==
    IF ~found THEN [p EXCEPT !.lightbox.lightboxElement = FALSE]
    ELSE [p EXCEPT !.lightbox.lightboxElement = TRUE,
                   !.lightbox.lightboxImg = img,
                   !.lightbox.listening = TRUE,
                   !.lightbox.display = display,
                   !.lightbox.ariaHidden = "true"]

\* lightbox.open(img); without a lightbox img the assignment of its src
\* throws after previouslyFocusedElement was stored
open(p, img) ==
    LET stored == [p EXCEPT !.lightbox.previouslyFocusedElement = p.activeElement] IN
    IF ~p.lightbox.lightboxImg THEN stored
    ELSE [stored EXCEPT !.lightbox.src = img.src,
                        !.lightbox.alt = IF img.alt # "" THEN img.alt
                                         ELSE "Image in lightbox view",
                        !.lightbox.display = "flex",
                        !.lightbox.ariaHidden = "false",
                        !.overflow = "hidden",
                        !.activeElement = "lightbox"]

\* element.focus() as close() calls it, the lightbox being hidden by then:
\* a gallery image takes the focus, body and the hidden lightbox do not
focusPrevious(el, current) ==
    IF el \in {g.id : g \in GalleryImages} THEN el ELSE current

\* close() that leaves the scrolling of body disabled
closeKeepOverflow(p) ==
    IF ~p.lightbox.lightboxElement THEN p
    ELSE [p EXCEPT !.lightbox.display = "none",
                   !.lightbox.ariaHidden = "true",
                   !.activeElement =
                       IF p.lightbox.previouslyFocusedElement # ""
                       THEN focusPrevious(p.lightbox.previouslyFocusedElement, @)
                       ELSE @]

\* lightbox.close(); without a lightbox element the first assignment throws
close(p) ==
    IF ~p.lightbox.lightboxElement THEN p
    ELSE [p EXCEPT !.lightbox.display = "none",
                   !.lightbox.ariaHidden = "true",
                   !.overflow = "",
                   !.activeElement =
                       IF p.lightbox.previouslyFocusedElement # ""
                       THEN focusPrevious(p.lightbox.previouslyFocusedElement, @)
                       ELSE @]

\* the click listener of the lightbox element, for a click whose target is
\* the element itself ("lightbox") or the image inside it ("lightboxImg")
lightboxClick(p, target) ==
    IF target = "lightbox" THEN [state |-> close(p), closed |-> TRUE]
    ELSE [state |-> p, closed |-> FALSE]

\* the keydown listener of document
documentKeydown(p, key) ==
    IF key = "Escape" /\ p.lightbox.display = "flex"
    THEN [state |-> close(p), closed |-> TRUE]
    ELSE [state |-> p, closed |-> FALSE]

\* the keydown listener of a gallery image
galleryKeydown(p, img, key) ==
    IF key = "Enter" \/ key = " " THEN open(p, img) ELSE p

---------------------------------------------------------------------------
(* App: the entry point that initialises the modules *)

\* the modules in the order App.init() hands them to initModule
ModuleOrder == <<"lazyLoading", "formValidation", "lightbox", "smoothScroll",
                 "mobileCTA", "analytics", "performance">>

\* new App(): nothing initialised; attempted lists the module init() calls
\* made so far, errors the modules console.error reported, threw whether
\* the latest App.init() ended by an exception, classList the classes of
\* the html element, webpPending whether the WebP test image is loading
NoApp == [initialized |-> FALSE, calls |-> 0, attempted |-> <<>>, errors |-> <<>>,
          threw |-> FALSE, classList |-> {}, webpPending |-> FALSE]

\* the page as the init() of a module finds it
Markup(lightboxFound, lightboxImg, display, ctaFound) ==
    [lightboxFound |-> lightboxFound, lightboxImg |-> lightboxImg,
     display |-> display, ctaFound |-> ctaFound]

\* module.init() of the named module when it returns normally; w holds the
\* App object, the page and the mobileCTA object
moduleInit(w, name, markup) ==
    IF name = "lightbox"
    THEN [w EXCEPT !.page = lightboxInit(@, markup.lightboxFound, markup.lightboxImg,
                                         markup.display)]
    ELSE IF name = "mobileCTA"
    THEN [w EXCEPT !.cta = ctaInit(@, markup.ctaFound)]
    ELSE w

\* initModule without its try/catch: the exception of module.init() leaves it
initModuleNoCatch(w, name, throws, markup) ==
    LET called == [w EXCEPT !.app.attempted = Append(@, name)] IN
    IF throws THEN [state |-> called, threw |-> TRUE]
    ELSE [state |-> moduleInit(called, name, markup), threw |-> FALSE]

\* App.initModule(module, name), the init() of the module throwing or not:
\* the state afterwards and whether initModule itself threw
initModule(w, name, throws, markup) ==
    LET called == [w EXCEPT !.app.attempted = Append(@, name)] IN
    IF throws THEN [state |-> [called EXCEPT !.app.errors = Append(@, name)],
                    threw |-> FALSE]
    ELSE [state |-> moduleInit(called, name, markup), threw |-> FALSE]

\* the initModule statements of App.init() from the i-th on; a statement
\* that throws ends the sequence
RECURSIVE initModules(_, _, _, _)
initModules(w, i, throwing, markup) ==
    IF i > Len(ModuleOrder) THEN [state |-> w, threw |-> FALSE]
    ELSE CHOOSE end \in
             {IF r.threw THEN r ELSE initModules(r.state, i + 1, throwing, markup) :
                 r \in {initModule(w, ModuleOrder[i], ModuleOrder[i] \in throwing, markup)}} :
             TRUE

\* App.init(), the modules in throwing failing in their init() and
\* utils.checkWebPSupport throwing or not
init(w, throwing, webpThrows, markup) ==
    LET entered == [w EXCEPT !.app.calls = @ + 1, !.app.threw = FALSE] IN
    IF w.app.initialized THEN entered
    ELSE LET webp == IF webpThrows
                     THEN [entered EXCEPT !.app.classList = @ \cup {"no-webp"}]
                     ELSE [entered EXCEPT !.app.webpPending = TRUE]
             r == initModules(webp, 1, throwing, markup)
         IN  IF r.threw THEN [r.state EXCEPT !.app.threw = TRUE]
             ELSE [r.state EXCEPT !.app.initialized = TRUE]

\* the onload / onerror callback of the WebP test image
webpResult(a, isSupported) ==
    [a EXCEPT !.classList = @ \cup {IF isSupported THEN "webp" ELSE "no-webp"},
              !.webpPending = FALSE]

\* before any widget of the page is set up
WidgetsIdle ==
    /\ clock = 1
    /\ thr = NoThrottle
    /\ deb = NoDebounce
    /\ calls = NoCallYet
    /\ invocations = <<>>
    /\ scrollY = 0
    /\ cta = NoCta
    /\ frames = FALSE
    /\ page = PageIdle
    /\ dispatched = NothingDispatched
    /\ app = NoApp

---------------------------------------------------------------------------
(* The state machine *)

\* the log of native submissions with one more entry, cut to its latest
\* maxSubmissions + 1 entries
Logged(log, t) ==
    LET all == Append(log, t)
        keep == maxSubmissions + 1
    IN  IF Len(all) <= keep THEN all
        ELSE SubSeq(all, Len(all) - keep + 1, Len(all))

Page == [dom |-> dom, cls |-> fieldError, focus |-> focus]

\* the tabs that share the storage key
Tabs == {"A", "B"}
\* a tab whose submit handler is not running: pc is the handler's position,
\* seen is recentSubmissions.length of its latest canSubmit(), read and at are
\* the item and the Date.now() its recordSubmission() has taken
IdleTab == [pc |-> "idle", seen |-> 0, at |-> 0, read |-> NoItem]
IdleTabs == [t \in Tabs |-> IdleTab]

\* an event object: its type, its target field (0 for the form) and e.defaultPrevented
Event(type, target, prevented) ==
    [type |-> type, target |-> target, defaultPrevented |-> prevented]
\* a call of a rateLimit method at time at, and the boolean or the number it returned
Call(op, at, bool, num) == [op |-> op, at |-> at, bool |-> bool, num |-> num]
NoCall == Call("none", 0, FALSE, Num(0))

InitForm(form) ==
    /\ attrs = form.fields
    /\ dom = InitialDom(form)
    /\ value = [i \in 1..Len(form.fields) |-> <<>>]
    /\ fieldError = [i \in 1..Len(form.fields) |-> FALSE]
    /\ focus = 0
    /\ event = Event("none", 0, FALSE)
    /\ accepted = <<>>

\* a page just loaded in one tab, with working storage and nothing recorded
Init ==
    /\ now = 0
    /\ store = NoItem
    /\ storageMode = "ok"
    /\ \E form \in Forms : InitForm(form)
    /\ lastCall = NoCall
    /\ recorded = <<>>
    /\ tabs = IdleTabs
    /\ phoneArg = NoArg
    /\ verdict = NoVerdict
    /\ WidgetsIdle

\* time passes: Date.now() never decreases
Tick ==
    /\ \E t \in Instants : t > now /\ now' = t
    /\ UNCHANGED <<store, storageMode>>
    /\ UNCHANGED formVars
    /\ UNCHANGED apiVars
    /\ UNCHANGED tabVars
    /\ UNCHANGED utilVars
    /\ UNCHANGED widgetVars

\* the user submits the form: the 'submit' listener of _setupFormValidation
Submit ==
    /\ LET r == handleSubmit(Page, attrs, value, store, storageMode, now) IN
        /\ dom' = r.page.dom
        /\ fieldError' = r.page.cls
        /\ focus' = r.page.focus
        /\ store' = r.store
        /\ event' = Event("submit", 0, r.prevented)
        /\ accepted' = IF r.prevented THEN accepted ELSE Logged(accepted, now)
    /\ UNCHANGED <<now, storageMode, attrs, value>>
    /\ UNCHANGED apiVars
    /\ UNCHANGED tabVars
    /\ UNCHANGED utilVars
    /\ UNCHANGED widgetVars

\* a field loses focus: the 'blur' listener
Blur ==
    /\ \E f \in 1..Len(attrs) :
        LET q == validateField(Page, f, attrs, value) IN
        /\ dom' = q.dom
        /\ fieldError' = q.cls
        /\ focus' = q.focus
        /\ event' = Event("blur", f, FALSE)
    /\ UNCHANGED <<attrs, value, accepted>>
    /\ UNCHANGED limiterVars
    /\ UNCHANGED apiVars
    /\ UNCHANGED tabVars
    /\ UNCHANGED utilVars
    /\ UNCHANGED widgetVars

\* the user edits a field: the value changes and the 'input' listener runs
Input ==
    /\ \E f \in 1..Len(attrs) : \E v \in SampleValues(attrs[f].type) :
        LET q == clearFieldError(Page, f) IN
        /\ value' = [value EXCEPT ![f] = v]
        /\ dom' = q.dom
        /\ fieldError' = q.cls
        /\ focus' = q.focus
        /\ event' = Event("input", f, FALSE)
    /\ UNCHANGED <<attrs, accepted>>
    /\ UNCHANGED limiterVars
    /\ UNCHANGED apiVars
    /\ UNCHANGED tabVars
    /\ UNCHANGED utilVars
    /\ UNCHANGED widgetVars

Next == Tick \/ Submit \/ Blur \/ Input

Spec == Init /\ [][Next]_vars

---------------------------------------------------------------------------
(* The rate limiter called directly, over every stored item and storage mode *)

\* non-decreasing timestamp arrays of at most n entries, none later than t
RECURSIVE SortedSeqs(_, _)
SortedSeqs(n, t) ==
    IF n = 0 THEN { <<>> }
    ELSE LET shorter == SortedSeqs(n - 1, t) IN
         shorter \cup
         { Append(q, x) : q \in {r \in shorter : Len(r) = n - 1},
                          x \in {i \in Instants : i <= t} }

IsSorted(q) == \A i \in 1..(Len(q) - 1) : q[i] <= q[i + 1]

\* what the item may hold when the page loads at time t
StoredItems(t) ==
    { Item("array", q) : q \in {r \in SortedSeqs(MaxStored, t) : IsSorted(r)} }
        \cup { NoItem, Item("invalid", <<>>), Item("object", <<>>), Item("string", <<>>) }

StorageModes == {"ok", "quota", "disabled"}

InitLimiter ==
    /\ now \in Instants
    /\ store \in StoredItems(now)
    /\ storageMode \in StorageModes
    /\ InitForm(CHOOSE form \in Forms : form.button)
    /\ lastCall = NoCall
    /\ recorded = <<>>
    /\ tabs = IdleTabs
    /\ phoneArg = NoArg
    /\ verdict = NoVerdict
    /\ WidgetsIdle

CallCanSubmit ==
    /\ lastCall' = Call("canSubmit", now, canSubmit(store, storageMode, now), Num(0))
    /\ UNCHANGED <<recorded>>
    /\ UNCHANGED limiterVars
    /\ UNCHANGED formVars
    /\ UNCHANGED tabVars
    /\ UNCHANGED utilVars
    /\ UNCHANGED widgetVars

CallRecordSubmission ==
    /\ store.kind = "array" => Len(store.seq) < MaxStored
    /\ store' = recordSubmission(store, storageMode, now)
    /\ lastCall' = Call("recordSubmission", now, FALSE, Num(0))
    /\ recorded' = IF store' # store THEN Append(recorded, now) ELSE recorded
    /\ UNCHANGED <<now, storageMode>>
    /\ UNCHANGED formVars
    /\ UNCHANGED tabVars
    /\ UNCHANGED utilVars
    /\ UNCHANGED widgetVars

CallGetRemainingTime ==
    /\ lastCall' = Call("getRemainingTime", now, FALSE,
                        getRemainingTime(store, storageMode, now))
    /\ UNCHANGED <<recorded>>
    /\ UNCHANGED limiterVars
    /\ UNCHANGED formVars
    /\ UNCHANGED tabVars
    /\ UNCHANGED utilVars
    /\ UNCHANGED widgetVars

NextLimiter == Tick \/ CallCanSubmit \/ CallRecordSubmission \/ CallGetRemainingTime

SpecLimiter == InitLimiter /\ [][NextLimiter]_vars

---------------------------------------------------------------------------
(* Vocabulary of the properties, stated apart from the operators above *)

\* the stored array, empty when there is no item
StoredSeq == IF store.kind = "array" THEN store.seq ELSE <<>>

\* number of entries of q that lie inside the window at time t
InWindowCount(q, t) == Cardinality({i \in 1..Len(q) : t - q[i] < windowMs})

\* the item can be read as an array of timestamps
Readable == ~GetThrows(storageMode) /\ store.kind \in {"null", "array"}

\* lastCall is a call of op made in the current state
JustCalled(op) == lastCall.op = op /\ lastCall.at = now

HasRateNode(d) == \E i \in 1..Len(d) : d[i].tag = "rate"

---------------------------------------------------------------------------
\* C1: in one tab with working storage and a non-decreasing clock, any
\* maxSubmissions + 1 natively submitted events span at least windowMs: no
\* half-open interval of length windowMs holds more than maxSubmissions of them
SlidingWindowBound ==
    \A i, j \in 1..Len(accepted) :
        j - i >= maxSubmissions => accepted[j] - accepted[i] >= windowMs

\* a 4th attempt inside the window has just been blocked, after a window was
\* filled, left and filled again
SlidingWindowBound_Witness ==
    /\ Len(accepted) > maxSubmissions
    /\ event = Event("submit", 0, TRUE)
    /\ HasRateNode(dom)
    /\ now - accepted[Len(accepted) - maxSubmissions + 1] < windowMs

---------------------------------------------------------------------------
\* C2: after maxSubmissions recordSubmission() calls within windowMs of each
\* other, canSubmit() is false until windowMs has passed since the earliest of
\* them, and true once it has passed with nothing recorded since
BlockingAndRecovery ==
    JustCalled("canSubmit") =>
        /\ \A i, k \in 1..Len(recorded) :
              ( /\ k - i >= maxSubmissions - 1
                /\ recorded[k] - recorded[i] < windowMs
                /\ now - recorded[i] < windowMs )
              => lastCall.bool = FALSE
        /\ LET n == Len(recorded) IN
              ( /\ n >= maxSubmissions
                /\ recorded[n] - recorded[n - maxSubmissions + 1] < windowMs
                /\ now - recorded[n - maxSubmissions + 1] >= windowMs )
              => lastCall.bool = TRUE

\* canSubmit() has answered true again after three records filled a window
BlockingAndRecovery_Witness ==
    /\ JustCalled("canSubmit")
    /\ lastCall.bool = TRUE
    /\ Len(recorded) >= maxSubmissions
    /\ recorded[Len(recorded)] - recorded[Len(recorded) - maxSubmissions + 1] < windowMs
    /\ now - recorded[Len(recorded) - maxSubmissions + 1] >= windowMs
    /\ InWindowCount(StoredSeq, now) > 0

---------------------------------------------------------------------------
\* C3: with a readable item, canSubmit() is true iff fewer than maxSubmissions
\* stored timestamps t have now - t < windowMs; stale timestamps do not count
WindowPruning ==
    (JustCalled("canSubmit") /\ Readable) =>
        (lastCall.bool <=> InWindowCount(StoredSeq, now) < maxSubmissions)

\* canSubmit() answered true over an array that holds maxSubmissions or more
\* timestamps, some stale and some recent
WindowPruning_Witness ==
    /\ JustCalled("canSubmit")
    /\ Readable
    /\ lastCall.bool = TRUE
    /\ Len(StoredSeq) >= maxSubmissions
    /\ InWindowCount(StoredSeq, now) > 0

---------------------------------------------------------------------------
\* reading the stored sequence fails: getItem throws, or the item is not a
\* parseable array of timestamps
ReadFails == GetThrows(storageMode) \/ store.kind \in {"invalid", "object", "string"}

\* C4: whenever the item cannot be read (getItem throws, or the item is not a
\* parseable array of timestamps) canSubmit() returns true and
\* getRemainingTime() returns 0
FailOpenOnRead ==
    ReadFails =>
        /\ JustCalled("canSubmit") => lastCall.bool = TRUE
        /\ JustCalled("getRemainingTime") => lastCall.num = Num(0)

---------------------------------------------------------------------------
(* Vocabulary of the properties about the form *)

Fields == 1..Len(attrs)

\* the fields the submit handler validates
ValidatedFields == {f \in Fields : attrs[f].required}

\* the message of the first failing check of field f holding v, "" when none fails
ExpectedMessage(f, v) ==
    IF trim(v) = <<>> THEN MsgRequired
    ELSE IF attrs[f].type = "email" /\ ~isValidEmail(v) THEN MsgInvalidEmail
    ELSE IF attrs[f].type = "tel" /\ ~isValidPhone(v) THEN MsgInvalidPhone
    ELSE ""

FailingFields == {f \in ValidatedFields : ExpectedMessage(f, value[f]) # ""}

FieldPos(d, f) == CHOOSE i \in 1..Len(d) : d[i] = FieldNode(f)

\* number of field-error annotations that follow field f directly
AnnotationCount(d, f) ==
    Cardinality({k \in 1..Len(d) :
        /\ k > FieldPos(d, f)
        /\ \A m \in (FieldPos(d, f) + 1)..k : d[m].tag = "error"})

\* the message of the annotation right after field f, "" when there is none
MessageAfter(d, f) ==
    IF FieldPos(d, f) < Len(d) /\ d[FieldPos(d, f) + 1].tag = "error"
    THEN d[FieldPos(d, f) + 1].msg ELSE ""

FieldErrorCount(d) == Cardinality({i \in 1..Len(d) : d[i].tag = "error"})
RateCount(d) == Cardinality({i \in 1..Len(d) : d[i].tag = "rate"})

Occurrences(q, t) == Cardinality({i \in 1..Len(q) : q[i] = t})

\* a submit step that the limiter lets through to field validation
SubmitAllowedByLimiter == Submit /\ canSubmit(store, storageMode, now)

---------------------------------------------------------------------------
\* C5: a submit event is default-prevented iff canSubmit() returned false or
\* at least one validated field failed
SubmitDecision ==
    [][Submit =>
        (event'.defaultPrevented <=>
            (~canSubmit(store, storageMode, now) \/ FailingFields # {}))]_vars

\* a submit was prevented by a failing field alone
SubmitDecision_Witness ==
    /\ event = Event("submit", 0, TRUE)
    /\ ~HasRateNode(dom)
    /\ FieldErrorCount(dom) = 1
    /\ accepted # <<>>

---------------------------------------------------------------------------
\* C6: a submit made while maxSubmissions submissions are recorded inside the
\* window is prevented whatever the fields hold, leaves exactly one rate-limit
\* annotation and no field-error annotation, and records nothing
RateLimitedSubmit ==
    [][(Submit /\ InWindowCount(StoredSeq, now) >= maxSubmissions) =>
        /\ event'.defaultPrevented
        /\ RateCount(dom') = 1
        /\ FieldErrorCount(dom') = 0
        /\ store' = store
        /\ accepted' = accepted]_vars

\* a blocked submit of a form whose fields would fail validation
RateLimitedSubmit_Witness ==
    /\ event = Event("submit", 0, TRUE)
    /\ InWindowCount(StoredSeq, now) >= maxSubmissions
    /\ RateCount(dom) = 1
    /\ FieldErrorCount(dom) = 0
    /\ FailingFields # {}

---------------------------------------------------------------------------
\* C7: a submit with canSubmit() true and every validated field passing
\* proceeds natively, leaves no annotation, and records exactly one timestamp
\* equal to now (nothing else is added to the stored array)
AcceptedSubmit ==
    [][(SubmitAllowedByLimiter /\ FailingFields = {}) =>
        /\ ~event'.defaultPrevented
        /\ accepted' # <<>>
        /\ accepted'[Len(accepted')] = now
        /\ store'.kind = "array"
        /\ Occurrences(store'.seq, now) = Occurrences(StoredSeq, now) + 1
        /\ \A i \in 1..Len(store'.seq) :
              store'.seq[i] # now =>
                  Occurrences(store'.seq, store'.seq[i])
                      <= Occurrences(StoredSeq, store'.seq[i])
        /\ FieldErrorCount(dom') = 0
        /\ RateCount(dom') = 0]_vars

\* an accepted submit that also pruned a stale record
AcceptedSubmit_Witness ==
    /\ event = Event("submit", 0, FALSE)
    /\ FieldErrorCount(dom) = 0
    /\ RateCount(dom) = 0
    /\ StoredSeq # <<>>
    /\ StoredSeq[Len(StoredSeq)] = now
    /\ Len(accepted) > Len(StoredSeq)

---------------------------------------------------------------------------
---------------------------------------------------------------------------
\* C9: after a submit in which a field failed validation, focus is on the
\* first failing field in document order, which is the element right before
\* the first error annotation
FocusOnFailure ==
    [][(SubmitAllowedByLimiter /\ FailingFields # {}) =>
        LET first == CHOOSE f \in FailingFields : \A g \in FailingFields : f <= g
            anns == {i \in 1..Len(dom') : hasErrorMessageClass(dom'[i])}
            firstAnn == CHOOSE i \in anns : \A j \in anns : i <= j
        IN  /\ focus' = first
            /\ anns # {}
            /\ firstAnn > 1
            /\ dom'[firstAnn - 1] = FieldNode(first)]_vars

\* focus moved to the second field, the first one having passed
FocusOnFailure_Witness ==
    /\ event = Event("submit", 0, TRUE)
    /\ focus = 2
    /\ attrs[1].required
    /\ MessageAfter(dom, 1) = ""
    /\ MessageAfter(dom, 2) # ""

---------------------------------------------------------------------------
\* f is a required email field that is empty or holds only whitespace
BlankRequiredEmail(f) ==
    /\ attrs[f] = Field("email", TRUE)
    /\ trim(value[f]) = <<>>

\* C10: for a required email field that is empty or only whitespace, blur and
\* submit both show the 'required' message and never the 'invalid email' one
RequiredBeforeType ==
    [][\A f \in Fields :
        ( /\ BlankRequiredEmail(f)
          /\ \/ Blur /\ event' = Event("blur", f, FALSE)
             \/ SubmitAllowedByLimiter )
        => /\ MessageAfter(dom', f) = MsgRequired
           /\ AnnotationCount(dom', f) = 1]_vars

\* a whitespace-only required email field has just been blurred
RequiredBeforeType_Witness ==
    /\ event.type = "blur"
    /\ BlankRequiredEmail(event.target)
    /\ value[event.target] # <<>>
    /\ MessageAfter(dom, event.target) = MsgRequired

---------------------------------------------------------------------------
(* The field error presenter called directly, next to the form's handlers *)

\* messages a caller passes to _showError, beside those of the handlers
CallerMessages == {MsgRequired, "First error", "Second error"}

\* formValidation._showError(field, message) called on field f
ShowErrorCall(f, message) ==
    /\ LET q == showError(Page, f, message) IN
        /\ dom' = q.dom
        /\ fieldError' = q.cls
        /\ focus' = q.focus
    /\ event' = Event("showError", f, FALSE)
    /\ UNCHANGED <<attrs, value, accepted>>
    /\ UNCHANGED limiterVars
    /\ UNCHANGED apiVars
    /\ UNCHANGED tabVars
    /\ UNCHANGED utilVars
    /\ UNCHANGED widgetVars

\* formValidation._clearFieldError(field) called on field f
ClearFieldErrorCall(f) ==
    /\ LET q == clearFieldError(Page, f) IN
        /\ dom' = q.dom
        /\ fieldError' = q.cls
        /\ focus' = q.focus
    /\ event' = Event("clearFieldError", f, FALSE)
    /\ UNCHANGED <<attrs, value, accepted>>
    /\ UNCHANGED limiterVars
    /\ UNCHANGED apiVars
    /\ UNCHANGED tabVars
    /\ UNCHANGED utilVars
    /\ UNCHANGED widgetVars

CallShowError == \E f \in 1..Len(attrs) : \E m \in CallerMessages : ShowErrorCall(f, m)
CallClearFieldError == \E f \in 1..Len(attrs) : ClearFieldErrorCall(f)

NextPresenter == Submit \/ Input \/ CallShowError \/ CallClearFieldError

SpecPresenter == Init /\ [][NextPresenter]_vars

---------------------------------------------------------------------------
\* every field-error annotation of d directly follows a field
AnnotationsFollowFields(d) ==
    \A i \in 1..Len(d) : d[i].tag = "error" => (i > 1 /\ d[i - 1].tag = "field")

\* C11: after each showError call on a field, whatever the messages of the
\* calls before it, the field has exactly one error annotation, the annotation
\* immediately follows the field and carries the message of this call
SingleAnnotation ==
    [][\A f \in Fields : \A m \in CallerMessages :
        ShowErrorCall(f, m) =>
            /\ AnnotationCount(dom', f) = 1
            /\ MessageAfter(dom', f) = m
            /\ AnnotationsFollowFields(dom')]_vars

\* showError has replaced the annotation of a field by one with another
\* message, while the other field keeps its own
SingleAnnotation_Witness ==
    /\ event.type = "showError"
    /\ MessageAfter(dom, event.target) = "Second error"
    /\ fieldError[event.target]
    /\ FieldErrorCount(dom) = 2
    /\ \E f \in Fields : MessageAfter(dom, f) = "First error"

---------------------------------------------------------------------------
\* C12: clearFieldError is idempotent: calling it a second time leaves the
\* state the first call produced, and calling it on a field that has no
\* annotation changes nothing
ClearIdempotent ==
    [][\A f \in Fields :
        ClearFieldErrorCall(f) =>
            /\ clearFieldError(Page', f) = Page'
            /\ MessageAfter(dom, f) = "" => dom' = dom]_vars

---------------------------------------------------------------------------
\* the item cannot be read as a sequence (it is absent or corrupt) and setItem works
UnreadableButWritable ==
    /\ storageMode = "ok"
    /\ store.kind \in {"null", "invalid", "object", "string"}

\* C13: when the item is absent or corrupt but writing works, recordSubmission()
\* takes the existing sequence as empty, appends now and writes the result
\* back: afterwards the persisted sequence is readable and holds now, so that
\* later canSubmit() calls count it
RecordOnUnreadable ==
    [][(CallRecordSubmission /\ UnreadableButWritable) =>
        /\ store'.kind = "array"
        /\ store'.seq = <<now>>
        /\ InWindowCount(store'.seq, now) = 1]_vars

---------------------------------------------------------------------------
(* The form and the limiter in a tab where every localStorage access throws *)

\* what an earlier session may have left under the key before access was denied
LeftoverItems ==
    {NoItem, Item("invalid", <<>>), Item("array", [i \in 1..maxSubmissions |-> 0])}

InitDegraded ==
    /\ now = 0
    /\ store \in LeftoverItems
    /\ storageMode = "disabled"
    /\ \E form \in Forms : InitForm(form)
    /\ lastCall = NoCall
    /\ recorded = <<>>
    /\ tabs = IdleTabs
    /\ phoneArg = NoArg
    /\ verdict = NoVerdict
    /\ WidgetsIdle

NextDegraded ==
    Submit \/ Blur \/ Input \/ CallCanSubmit \/ CallRecordSubmission \/ CallGetRemainingTime

SpecDegraded == InitDegraded /\ [][NextDegraded]_vars

\* every localStorage access throws
StorageFails == GetThrows(storageMode) /\ SetThrows(storageMode)

\* C14: while every localStorage access throws, canSubmit() answers true,
\* getRemainingTime() answers 0 and recordSubmission() returns having written
\* nothing; a submit is prevented only by a failing field, never by the
\* limiter, and a submit whose validated fields all pass proceeds natively
\* with no annotation shown
StorageFailureNeverBlocks ==
    [][StorageFails =>
        /\ CallCanSubmit => lastCall'.bool = TRUE
        /\ CallGetRemainingTime => lastCall'.num = Num(0)
        /\ CallRecordSubmission => store' = store
        /\ Submit =>
            /\ event'.defaultPrevented <=> FailingFields # {}
            /\ RateCount(dom') = 0
            /\ FailingFields = {} => FieldErrorCount(dom') = 0]_vars

\* with storage failing and a full window left under the key, a fourth valid
\* submit has gone through with no annotation
StorageFailureNeverBlocks_Witness ==
    /\ StorageFails
    /\ InWindowCount(StoredSeq, now) = maxSubmissions
    /\ event = Event("submit", 0, FALSE)
    /\ Len(accepted) > maxSubmissions
    /\ FieldErrorCount(dom) = 0
    /\ RateCount(dom) = 0

---------------------------------------------------------------------------
\* the stored timestamps that lie inside the window at time t
InWindow(q, t) == {q[i] : i \in {k \in 1..Len(q) : t - q[k] < windowMs}}

\* whole seconds, rounded up, until the oldest timestamp of q still inside the
\* window at time t leaves it; 0 when none is inside
SecondsUntilOldestExits(q, t) ==
    IF InWindow(q, t) = {} THEN 0
    ELSE LET oldest == CHOOSE x \in InWindow(q, t) : \A y \in InWindow(q, t) : x <= y
         IN  (windowMs - (t - oldest) + 999) \div 1000

\* C15: for every stored sequence and every now, getRemainingTime() is the
\* number of whole seconds, rounded up and never negative, until the oldest
\* record still inside the window exits it, and 0 when no record is inside;
\* stale records still stored do not change the result
RemainingTimeOfWindow ==
    (JustCalled("getRemainingTime") /\ Readable) =>
        lastCall.num = Num(SecondsUntilOldestExits(StoredSeq, now))

---------------------------------------------------------------------------
\* f is marked required or carries a recognised type
RequiredOrTyped(f) == attrs[f].required \/ attrs[f].type \in {"email", "tel"}

\* the message field f holding v deserves when required and typed fields are
\* both validated, "" when it passes
TypedMessage(f, v) ==
    IF attrs[f].required /\ trim(v) = <<>> THEN MsgRequired
    ELSE IF attrs[f].type = "email" /\ v # <<>> /\ ~isValidEmail(v) THEN MsgInvalidEmail
    ELSE IF attrs[f].type = "tel" /\ v # <<>> /\ ~isValidPhone(v) THEN MsgInvalidPhone
    ELSE ""

\* C16: on a submit that is not rate-limited every field that is required or
\* of type email or tel is validated: a failing one, a non-required email or
\* tel field with a non-empty invalid value included, receives an error
\* annotation and the native submission is prevented
SubmitValidatesTyped ==
    [][\A f \in Fields :
        (SubmitAllowedByLimiter /\ RequiredOrTyped(f) /\ TypedMessage(f, value[f]) # "")
        => /\ MessageAfter(dom', f) = TypedMessage(f, value[f])
           /\ event'.defaultPrevented]_vars

---------------------------------------------------------------------------
\* C17: for every field the submit handler validates and every value, the
\* verdict and message of validateField on blur equal those of the submit
\* handler for the same field and value, fields of type tel included
BlurAgreesWithSubmit ==
    [][\A f \in ValidatedFields :
        (Blur /\ event' = Event("blur", f, FALSE))
        => MessageAfter(dom', f) = submitCheck(attrs, value, f)]_vars

---------------------------------------------------------------------------
\* C18: a rate-limit annotation stays on the form until the next submit
\* attempt starts: no blur and no input event on any field removes it, and
\* nothing but a submit does
RateAnnotationLifetime ==
    [][/\ (Blur \/ Input) => RateCount(dom') = RateCount(dom)
       /\ RateCount(dom') < RateCount(dom) => Submit]_vars

---------------------------------------------------------------------------
(* Two tabs of the site sharing the storage key. Each tab runs _handleSubmit *)
(* over valid fields; its localStorage accesses (the read of canSubmit, the  *)
(* read and the write of recordSubmission) interleave with the other tab's.  *)

\* _handleSubmit in tab t reaches rateLimit.canSubmit(): the fields being
\* valid, the submit proceeds natively iff it answers true
TabCanSubmit(t) ==
    /\ tabs[t].pc = "idle"
    /\ LET submissions == readSubmissions(store, storageMode)
           ok == canSubmit(store, storageMode, now)
       IN  /\ tabs' = [tabs EXCEPT ![t] =
                        [pc |-> IF ok THEN "checked" ELSE "idle",
                         seen |-> Len(filterRecent(submissions.seq, now)),
                         at |-> 0, read |-> NoItem]]
           /\ accepted' = IF ok THEN Logged(accepted, now) ELSE accepted
    /\ UNCHANGED <<attrs, dom, value, fieldError, focus, event>>
    /\ UNCHANGED limiterVars
    /\ UNCHANGED apiVars
    /\ UNCHANGED utilVars
    /\ UNCHANGED widgetVars

\* recordSubmission() in tab t reads the item and takes Date.now()
TabReadSubmissions(t) ==
    /\ tabs[t].pc = "checked"
    /\ tabs' = [tabs EXCEPT ![t].pc = "read", ![t].read = store, ![t].at = now]
    /\ UNCHANGED formVars
    /\ UNCHANGED limiterVars
    /\ UNCHANGED apiVars
    /\ UNCHANGED utilVars
    /\ UNCHANGED widgetVars

\* recordSubmission() in tab t pushes, prunes and writes what it has read
TabWriteSubmissions(t) ==
    /\ tabs[t].pc = "read"
    /\ store' = recordSubmission(tabs[t].read, storageMode, tabs[t].at)
    /\ tabs' = [tabs EXCEPT ![t].pc = "idle", ![t].read = NoItem, ![t].at = 0]
    /\ UNCHANGED <<now, storageMode>>
    /\ UNCHANGED formVars
    /\ UNCHANGED apiVars
    /\ UNCHANGED utilVars
    /\ UNCHANGED widgetVars

TabStep ==
    \E t \in Tabs : TabCanSubmit(t) \/ TabReadSubmissions(t) \/ TabWriteSubmissions(t)

\* time passes between handler runs: a handler is synchronous, the Date.now()
\* of its canSubmit() and of its recordSubmission() give the same instant
TabsTick == Tick /\ \A t \in Tabs : tabs[t].pc = "idle"

NextTabs == TabsTick \/ TabStep

SpecTabs == Init /\ [][NextTabs]_vars

\* both tabs are inside their submit handler, each having counted
\* maxSubmissions - 1 records inside the window and been answered true
Racing ==
    \A t \in Tabs : tabs[t].pc # "idle" /\ tabs[t].seen = maxSubmissions - 1

\* C19: two tabs sharing the key can both be answered true by canSubmit()
\* over maxSubmissions - 1 records and both proceed; whenever they do, more
\* than maxSubmissions submissions are accepted within one window
CrossTabRace ==
    Racing =>
        \E i, j \in 1..Len(accepted) :
            j - i >= maxSubmissions /\ accepted[j] - accepted[i] < windowMs

\* both tabs have raced and finished: maxSubmissions + 1 submissions were
\* accepted inside one window, and the store holds one record fewer because
\* one tab's write replaced the other's
CrossTabRace_Witness ==
    /\ \A t \in Tabs : tabs[t].pc = "idle" /\ tabs[t].seen = maxSubmissions - 1
    /\ Len(accepted) = maxSubmissions + 1
    /\ accepted[Len(accepted)] - accepted[1] < windowMs
    /\ Len(StoredSeq) = maxSubmissions

---------------------------------------------------------------------------
(* utils.isValidPhone as a function of its argument *)

\* longest run of digits tried
MaxPhoneLen == 21

Fives(n) == [i \in 1..n |-> "5"]

\* characters typed into a phone number, allowed ones and others
PhoneChars == {"-", " ", "(", ")", "+", "a", "@"}

\* runs of digits around the length bounds, bare or with one more character
\* put in front, after the first digit or at the end
PhoneStrings ==
    LET runs == {Fives(n) : n \in (phoneMinLength - 2)..MaxPhoneLen} IN
    runs \cup UNION { { SubSeq(r, 1, k) \o <<c>> \o SubSeq(r, k + 1, Len(r)) :
                            c \in PhoneChars, k \in {0, 1, Len(r)} } : r \in runs }

PhoneArgs ==
    { Arg("string", str) : str \in PhoneStrings \cup { <<>> } }
        \cup { Arg("null", <<>>), Arg("undefined", <<>>), Arg("number", <<>>) }

InitPhone == Init

\* utils.isValidPhone(phone) is called with some argument
CallIsValidPhone ==
    /\ \E arg \in PhoneArgs :
        /\ phoneArg' = arg
        /\ verdict' = Verdict(isValidPhoneOf(arg))
    /\ UNCHANGED limiterVars
    /\ UNCHANGED formVars
    /\ UNCHANGED apiVars
    /\ UNCHANGED tabVars
    /\ UNCHANGED widgetVars

NextPhone == CallIsValidPhone

SpecPhone == InitPhone /\ [][NextPhone]_vars

\* a string, trimmed, of 10 to 20 characters that are digits, spaces, hyphens
\* or parentheses, a plus being allowed as its first character only
WellFormedPhone(arg) ==
    /\ arg.kind = "string"
    /\ LET str == trim(arg.str) IN
        /\ Len(str) >= 10
        /\ Len(str) <= 20
        /\ \A i \in 1..Len(str) :
              \/ str[i] \in Digit \cup {" ", "-", "(", ")"}
              \/ str[i] = "+" /\ i = 1

\* C20: isValidPhone(value) is true only if value is a string of 10 to 20
\* characters, all of them digits, spaces, hyphens or parentheses, with a
\* plus permitted only as the leading character; a plus elsewhere, and null,
\* undefined, empty and non-string values, are rejected
PhoneOnlyLeadingPlus ==
    (verdict.called /\ verdict.value) => WellFormedPhone(phoneArg)

---------------------------------------------------------------------------
\* the entries of q inside the window at time t, in their order
Recent(q, t) == SelectSeq(q, LAMBDA x : t - x < windowMs)

\* C21: with working storage and a readable stored sequence S, after
\* recordSubmission() at time now the persisted sequence is the entries t of
\* S with now - t < windowMs, in their original order, followed by now; no
\* persisted entry is stale relative to now
RecordPostcondition ==
    [][(CallRecordSubmission /\ storageMode = "ok" /\ Readable) =>
        /\ store'.kind = "array"
        /\ store'.seq = Append(Recent(StoredSeq, now), now)
        /\ \A i \in 1..Len(store'.seq) : now - store'.seq[i] < windowMs]_vars

\* recordSubmission() has just written a sequence that keeps an earlier
\* record and has dropped one that went stale
RecordPostcondition_Witness ==
    /\ JustCalled("recordSubmission")
    /\ storageMode = "ok"
    /\ Len(StoredSeq) >= 2
    /\ StoredSeq[Len(StoredSeq)] = now
    /\ \E i \in 1..Len(recorded) : now - recorded[i] >= windowMs
    /\ InWindowCount(StoredSeq, now) = Len(StoredSeq)

---------------------------------------------------------------------------
\* C22: every submit attempt starts by removing all field-error annotations
\* and any rate-limit annotation, so a form never holds more than one
\* rate-limit annotation, and the annotations present after a submit are
\* those this submit created: the rate-limit annotation alone when it was
\* blocked, else one annotation per field failing now and nothing older
CleanSlateOnSubmit ==
    /\ [](RateCount(dom) <= 1)
    /\ [][Submit =>
            IF InWindowCount(StoredSeq, now) >= maxSubmissions
            THEN RateCount(dom') = 1 /\ FieldErrorCount(dom') = 0
            ELSE /\ RateCount(dom') = 0
                 /\ FieldErrorCount(dom') = Cardinality(FailingFields)
                 /\ \A f \in Fields :
                       MessageAfter(dom', f) =
                           IF f \in FailingFields THEN ExpectedMessage(f, value[f]) ELSE ""]_vars

\* a blocked submit has removed the annotation of a field that was in error:
\* the field still carries the error class, the annotation is gone and the
\* rate-limit annotation is the only one
CleanSlateOnSubmit_Witness ==
    /\ event = Event("submit", 0, TRUE)
    /\ RateCount(dom) = 1
    /\ FieldErrorCount(dom) = 0
    /\ \E f \in Fields : fieldError[f]

---------------------------------------------------------------------------
\* C28: after any sequence of blur, input and submit events a field carries
\* the class 'field-error' if and only if an error annotation for it is
\* present immediately after it
ErrorFlagMatchesAnnotation ==
    \A f \in Fields : fieldError[f] <=> MessageAfter(dom, f) # ""

---------------------------------------------------------------------------
\* C29: a submit that is blocked by the limiter or fails field validation,
\* and every blur or input event, leaves the persisted timestamp sequence
\* unchanged; the sequence changes only in a submit that proceeds
OnlyAcceptedSubmitsRecord ==
    [][/\ (Submit /\ event'.defaultPrevented) => store' = store
       /\ (Blur \/ Input) => store' = store
       /\ store' # store => (Submit /\ ~event'.defaultPrevented)]_vars

\* a submit with a failing field, made with two submissions on record, has
\* been prevented and the two records are all the store holds
OnlyAcceptedSubmitsRecord_Witness ==
    /\ event = Event("submit", 0, TRUE)
    /\ FieldErrorCount(dom) >= 1
    /\ RateCount(dom) = 0
    /\ Len(StoredSeq) = 2
    /\ InWindowCount(StoredSeq, now) = 2

---------------------------------------------------------------------------
---------------------------------------------------------------------------
(* utils.throttle: a throttled function, its calls and its timer *)

\* last instant of the timers' clock
MaxClock == 7
\* largest wait handed to throttle and debounce
MaxWait == 3

\* arguments the returned functions are called with
CallArgs == {"arg1", "arg2"}

\* a pending timer of either closure is due
TimerDue == \/ thr.timeout.set /\ thr.timeout.due <= clock
            \/ deb.timeout.set /\ deb.timeout.due <= clock

\* a millisecond passes; a timer that is due runs before the clock moves on
ClockTick ==
    /\ clock < MaxClock
    /\ ~TimerDue
    /\ clock' = clock + 1
    /\ UNCHANGED <<thr, deb, calls, invocations>>
    /\ UNCHANGED outsideTimers

\* utils.throttle(func, wait)
MakeThrottle ==
    /\ ~thr.made
    /\ \E wait \in 1..MaxWait : thr' = NewThrottle(wait)
    /\ UNCHANGED <<clock, deb, calls, invocations>>
    /\ UNCHANGED outsideTimers

\* the throttled function is called
ThrottledCall ==
    /\ thr.made
    /\ \E args \in CallArgs :
        LET r == throttled(thr, clock, args) IN
        /\ thr' = r.state
        /\ calls' = CallAt(clock, args, calls.at)
        /\ invocations' = IF r.ran THEN Ran(invocations, Run(clock, args, TRUE))
                           ELSE invocations
    /\ UNCHANGED <<clock, deb>>
    /\ UNCHANGED outsideTimers

\* the timer of the throttled function fires
ThrottleTimeout ==
    /\ thr.timeout.set
    /\ thr.timeout.due <= clock
    /\ LET r == throttleTimeout(thr, clock) IN
        /\ thr' = r.state
        /\ invocations' = IF r.ran
                           THEN Ran(invocations, Run(clock, thr.timeout.args, FALSE))
                           ELSE invocations
    /\ UNCHANGED <<clock, deb, calls>>
    /\ UNCHANGED outsideTimers

NextThrottle == ClockTick \/ MakeThrottle \/ ThrottledCall \/ ThrottleTimeout

SpecThrottle == Init /\ [][NextThrottle]_vars

\* C23: the first call of the throttled function invokes func synchronously;
\* a call made less than wait ms after the last invocation does not invoke
\* func synchronously; and two consecutive invocations of func are never
\* less than wait ms apart
ThrottleSpacing ==
    /\ [](\A i \in 1..(Len(invocations) - 1) :
            invocations[i + 1].at - invocations[i].at >= thr.wait)
    /\ [][ThrottledCall =>
            /\ ~calls.made => invocations' = <<Run(clock, calls'.args, TRUE)>>
            /\ ( /\ invocations # <<>>
                 /\ clock - invocations[Len(invocations)].at < thr.wait )
               => invocations' = invocations]_vars

\* after the synchronous first invocation, a call inside the wait was
\* deferred and its timer has invoked func exactly wait ms after the first
ThrottleSpacing_Witness ==
    /\ Len(invocations) = 2
    /\ invocations[1].sync
    /\ ~invocations[2].sync
    /\ invocations[2].at - invocations[1].at = thr.wait
    /\ calls.made
    /\ calls.at < invocations[2].at
    /\ calls.at > invocations[1].at

---------------------------------------------------------------------------
(* utils.debounce: a debounced function, its calls and its timer *)

\* utils.debounce(func, wait, immediate)
MakeDebounce ==
    /\ ~deb.made
    /\ \E wait \in 1..MaxWait : \E immediate \in BOOLEAN :
          deb' = NewDebounce(wait, immediate)
    /\ UNCHANGED <<clock, thr, calls, invocations>>
    /\ UNCHANGED outsideTimers

\* the debounced function is called
DebouncedCall ==
    /\ deb.made
    /\ \E args \in CallArgs :
        LET r == debounced(deb, clock, args) IN
        /\ deb' = r.state
        /\ calls' = CallAt(clock, args, calls.at)
        /\ invocations' = IF r.ran THEN Ran(invocations, Run(clock, args, TRUE))
                           ELSE invocations
    /\ UNCHANGED <<clock, thr>>
    /\ UNCHANGED outsideTimers

\* the timer of the debounced function fires
DebounceTimeout ==
    /\ deb.timeout.set
    /\ deb.timeout.due <= clock
    /\ LET r == debounceTimeout(deb) IN
        /\ deb' = r.state
        /\ invocations' = IF r.ran
                           THEN Ran(invocations, Run(clock, deb.timeout.args, FALSE))
                           ELSE invocations
    /\ UNCHANGED <<clock, thr, calls>>
    /\ UNCHANGED outsideTimers

NextDebounce == ClockTick \/ MakeDebounce \/ DebouncedCall \/ DebounceTimeout

SpecDebounce == Init /\ [][NextDebounce]_vars

\* C24: with immediate false, func is never invoked while calls keep
\* arriving less than wait ms apart: no call invokes it, and it is invoked
\* once, wait ms after the last call of a burst, with that call's arguments;
\* with immediate true, func is invoked synchronously on the first call of a
\* burst, never by the timer, and not by a call made less than wait ms after
\* the call before it
DebounceBursts ==
    /\ [](\A i \in 1..(Len(invocations) - 1) :
            invocations[i + 1].at - invocations[i].at >= deb.wait)
    /\ [][
           /\ (DebouncedCall /\ ~deb.immediate) => invocations' = invocations
           /\ (DebounceTimeout /\ ~deb.immediate) =>
                 /\ invocations' = Ran(invocations, Run(calls.at + deb.wait, calls.args, FALSE))
                 /\ clock = calls.at + deb.wait
                 /\ ~deb'.timeout.set
           /\ (DebounceTimeout /\ deb.immediate) => invocations' = invocations
           /\ (DebouncedCall /\ deb.immediate /\ (~calls.made \/ clock - calls.at > deb.wait))
                 => invocations' = Ran(invocations, Run(clock, calls'.args, TRUE))
           /\ (DebouncedCall /\ deb.immediate /\ calls.made /\ clock - calls.at < deb.wait)
                 => invocations' = invocations]_vars

\* with immediate false, two calls less than wait ms apart with different
\* arguments were followed by one invocation, wait ms after the second call
\* and with its argument
DebounceBursts_Witness ==
    /\ deb.made /\ ~deb.immediate
    /\ calls.before > 0
    /\ calls.at - calls.before < deb.wait
    /\ Len(invocations) = 1
    /\ invocations[1] = Run(calls.at + deb.wait, calls.args, FALSE)
    /\ calls.args = "arg2"
    /\ ~deb.timeout.set

---------------------------------------------------------------------------
(* mobileCTA: scrolling, the scroll listener and the animation frame *)

\* how far past the threshold the page scrolls
MaxScrollPast == 4

\* the scroll positions the window takes: the top, and the positions around
\* the threshold
ScrollPositions == {0} \cup ((mobileCtaThreshold - 1)..(mobileCtaThreshold + MaxScrollPast))

\* mobileCTA.init()
CtaInit ==
    /\ ~cta.listening
    /\ \E found \in BOOLEAN : cta' = ctaInit(cta, found)
    /\ UNCHANGED <<scrollY, frames>>
    /\ UNCHANGED outsideCta

\* the window scrolls to another position and dispatches 'scroll'; the
\* listener, when init() added one, runs _handleScroll()
Scroll ==
    /\ \E y \in ScrollPositions \ {scrollY} :
        /\ scrollY' = y
        /\ IF cta.listening
           THEN LET r == handleScroll(cta) IN
                /\ cta' = r.state
                /\ frames' = (frames \/ r.requested)
           ELSE UNCHANGED <<cta, frames>>
    /\ UNCHANGED outsideCta

\* the browser runs the requested animation frame callback: _updateCTA()
AnimationFrame ==
    /\ frames
    /\ cta' = updateCTA(cta, scrollY)
    /\ frames' = FALSE
    /\ UNCHANGED scrollY
    /\ UNCHANGED outsideCta

NextCta == CtaInit \/ Scroll \/ AnimationFrame

SpecCta == Init /\ [][NextCta]_vars

\* the three cases of an update, read off the state before it
ScrollingDownPastThreshold == scrollY > mobileCtaThreshold /\ scrollY > cta.lastScroll
ScrollingUp == scrollY < cta.lastScroll
OtherClasses(classes) == classes \ {"visible", "hidden"}

\* C25: every _updateCTA() leaves the CTA 'visible' and not 'hidden' when
\* scrollY is above the threshold and above lastScroll, 'hidden' and not
\* 'visible' when scrollY is below lastScroll, and with its classes as they
\* were in every other case; it sets lastScroll to the scrollY it observed;
\* and the element never carries both classes
CtaVisibility ==
    /\ [](~({"visible", "hidden"} \subseteq cta.classList))
    /\ [][AnimationFrame =>
            /\ cta'.lastScroll = scrollY
            /\ OtherClasses(cta'.classList) = OtherClasses(cta.classList)
            /\ ScrollingDownPastThreshold =>
                  ("visible" \in cta'.classList /\ "hidden" \notin cta'.classList)
            /\ ScrollingUp =>
                  ("hidden" \in cta'.classList /\ "visible" \notin cta'.classList)
            /\ (~ScrollingDownPastThreshold /\ ~ScrollingUp) =>
                  cta'.classList = cta.classList]_vars

\* an update has hidden a CTA that an earlier update had shown, while the
\* page is still past the threshold
CtaVisibility_Witness ==
    /\ cta.ctaElement /\ ~frames
    /\ "hidden" \in cta.classList
    /\ cta.lastScroll = scrollY
    /\ scrollY > mobileCtaThreshold

---------------------------------------------------------------------------
(* lightbox: clicks, keys and direct calls *)

\* the keys pressed
Keys == {"Escape", "Enter", " ", "a"}

\* lightbox.init()
LightboxInit ==
    /\ ~page.lightbox.listening
    /\ \E found \in BOOLEAN, img \in BOOLEAN, display \in {"", "none"} :
        page' = lightboxInit(page, found, img, display)
    /\ UNCHANGED dispatched
    /\ UNCHANGED outsideLightbox

\* the user clicks a gallery image: it takes the focus (tabindex 0) and its
\* click listener runs open(img)
GalleryClick ==
    /\ page.lightbox.listening
    /\ \E img \in GalleryImages :
        /\ page' = open([page EXCEPT !.activeElement = img.id], img)
        /\ dispatched' = Dispatched("click", img.id, "", FALSE)
    /\ UNCHANGED outsideLightbox

\* a click on the overlay itself or on the image inside it
LightboxClick ==
    /\ page.lightbox.listening
    /\ \E target \in {"lightbox"} \cup (IF page.lightbox.lightboxImg THEN {"lightboxImg"} ELSE {}) :
        LET r == lightboxClick(page, target) IN
        /\ page' = r.state
        /\ dispatched' = Dispatched("click", target, "", r.closed)
    /\ UNCHANGED outsideLightbox

\* a key goes down on the focused element: the listener of a gallery image
\* runs first, then the listener of document
KeyDown ==
    /\ page.lightbox.listening
    /\ \E key \in Keys :
        LET onTarget == {g \in GalleryImages : g.id = page.activeElement}
            first == IF onTarget = {} THEN page
                     ELSE galleryKeydown(page, CHOOSE g \in onTarget : TRUE, key)
            r == documentKeydown(first, key)
        IN  /\ page' = r.state
            /\ dispatched' = Dispatched("keydown", page.activeElement, key, r.closed)
    /\ UNCHANGED outsideLightbox

\* a direct call of lightbox.open(img)
CallOpen ==
    /\ \E img \in GalleryImages :
        /\ page' = open(page, img)
        /\ dispatched' = Dispatched("open", img.id, "", FALSE)
    /\ UNCHANGED outsideLightbox

\* a direct call of lightbox.close()
CallClose ==
    /\ page' = close(page)
    /\ dispatched' = Dispatched("close", "", "", TRUE)
    /\ UNCHANGED outsideLightbox

\* the user moves the focus to a gallery image or away from every element
FocusMove ==
    /\ \E el \in {"body"} \cup {g.id : g \in GalleryImages} :
        /\ el # page.activeElement
        /\ page' = [page EXCEPT !.activeElement = el]
    /\ UNCHANGED dispatched
    /\ UNCHANGED outsideLightbox

NextLightbox ==
    \/ LightboxInit \/ GalleryClick \/ LightboxClick \/ KeyDown
    \/ CallOpen \/ CallClose \/ FocusMove

SpecLightbox == Init /\ [][NextLightbox]_vars

\* the three ways the page tells that the lightbox is open
Displayed == page.lightbox.display = "flex"
Announced == page.lightbox.ariaHidden = "false"
ScrollLocked == page.overflow = "hidden"

\* C26: the lightbox is displayed exactly when its aria-hidden is 'false'
\* and exactly when body scrolling is disabled; a click on the image inside
\* it runs no close() and leaves it as it was; an Escape key runs close()
\* only when the lightbox was displayed
LightboxConsistent ==
    /\ []((Displayed <=> Announced) /\ (Announced <=> ScrollLocked))
    /\ [][
           /\ (LightboxClick /\ dispatched'.target = "lightboxImg") =>
                 (~dispatched'.closed /\ page' = page)
           /\ (KeyDown /\ dispatched'.key = "Escape" /\ dispatched'.closed) =>
                 (Displayed /\ ~Displayed')]_vars

\* Escape has closed a lightbox that showed the second gallery image, and
\* scrolling is enabled again
LightboxConsistent_Witness ==
    /\ dispatched = Dispatched("keydown", "lightbox", "Escape", TRUE)
    /\ page.lightbox.src = "gallery2.jpg"
    /\ page.lightbox.display = "none"
    /\ page.lightbox.ariaHidden = "true"
    /\ page.overflow = ""

---------------------------------------------------------------------------
(* App: calls of init() and the WebP test *)

\* calls of App.init() followed
MaxAppCalls == 2

\* the pages App.init() runs on: one with the lightbox and the CTA, one
\* with neither
Markups == {Markup(TRUE, TRUE, "none", TRUE), Markup(FALSE, FALSE, "", FALSE)}

\* app.init()
AppInit ==
    /\ app.calls < MaxAppCalls
    /\ \E throwing \in SUBSET {ModuleOrder[i] : i \in 1..Len(ModuleOrder)},
          webpThrows \in BOOLEAN, markup \in Markups :
        \E r \in {init([app |-> app, page |-> page, cta |-> cta], throwing, webpThrows,
                        markup)} :
            /\ app' = r.app
            /\ page' = r.page
            /\ cta' = r.cta
    /\ UNCHANGED <<scrollY, frames, dispatched>>
    /\ UNCHANGED <<coreVars, timerVars>>

\* the WebP test image loads or fails to load
WebPResult ==
    /\ app.webpPending
    /\ \E isSupported \in BOOLEAN : app' = webpResult(app, isSupported)
    /\ UNCHANGED <<coreVars, timerVars, ctaVars, lightboxVars>>

NextApp == AppInit \/ WebPResult

SpecApp == Init /\ [][NextApp]_vars

\* C27: once App.init() has been called it has not thrown, every module's
\* init() has been called exactly once and in the fixed order, whichever of
\* them threw, and a call of App.init() on an initialised App calls no
\* module's init() and changes nothing the modules set up
AppErrorBoundary ==
    /\ [](app.calls > 0 =>
            /\ ~app.threw
            /\ app.initialized
            /\ app.attempted = ModuleOrder)
    /\ [][(app.initialized /\ app'.calls # app.calls) =>
            /\ app'.attempted = app.attempted
            /\ app'.errors = app.errors
            /\ page' = page
            /\ cta' = cta]_vars

\* after a first call in which the first and the last module threw, a second
\* call has returned and the lightbox and the CTA are set up
AppErrorBoundary_Witness ==
    /\ app.calls = 2
    /\ app.errors = <<"lazyLoading", "performance">>
    /\ app.attempted = ModuleOrder
    /\ page.lightbox.listening
    /\ cta.listening

====
